---- MODULE Spec2Model ----
(***************************************************************************)
(* State machine of napari-tomoslice: the TomoSlice controller             *)
(* (tomoslice.py) and the two plane flows (plane_controls.py).             *)
(*                                                                         *)
(* Points and distances are integers in HALF-voxel units (a data           *)
(* coordinate c is stored as 2*c), so that shape / 2 of an odd shape and   *)
(* the projection onto a 45-degree view direction stay exact.  View        *)
(* directions are given by an integer vector d with components in          *)
(* {-1,0,1}; the unit vector the viewer passes is d / |d|.                 *)
(*                                                                         *)
(* A session is any sequence of at most MaxSteps commands and events; the  *)
(* commands may interleave with a drag gesture, and a volume may be opened *)
(* while another one is open.                                              *)
(***************************************************************************)
EXTENDS Integers, Sequences, FiniteSets, TLC

\* Largest number of commands and events of one session (open, close, the two
\* setters, pointer and key events).
MaxSteps == 5

\* 'thickness': 5 of plane_parameters
DefaultThickness == 5

Axes == 1..3

\* tomogram.shape of the files that can be opened (voxels)
Shapes == {<<3, 2, 2>>, <<2, 2, 1>>}

\* event.position / viewer.cursor.position (half-voxels)
Positions == {<<2, 0, 2>>, <<0, 2, 2>>, <<0, 8, 2>>}

\* event.view_direction / viewer.cursor._view_direction
Views == {<<1, 1, 0>>, <<-1, 0, 0>>, <<0, 1, 1>>}

\* values written to plane_thickness
Thicknesses == {5, 7}

\* RenderingMode, by its str()
RenderingMode == {"volume", "plane"}

\* the bound keys, in the order of `for key in 'xyz'`
KeyOrder == <<"x", "y", "z">>
Keys == {"x", "y", "z"}

VARIABLES
    rendering_mode,        \* self._rendering_mode
    volume_layer,          \* self.volume_layer: a layer id, 0 for None
    layer,                 \* every Image layer created so far, by id
    viewer_layers,         \* viewer.layers: the ids displayed
    mouse_drag_callbacks,  \* viewer.mouse_drag_callbacks: the bound layer of each
    mouse_drag_callback,   \* self._mouse_drag_callback: its bound layer, 0 if unset
    keymap,                \* viewer.keymap: key -> bound layer of its callback, 0 if unbound
    pointer,               \* "up" or "down": the mouse button
    emitted,               \* notifications the observers received during the last step
    lastOp,                \* the last command or event: the position and view direction
                           \* it carried, the branch it took and, for a key, the
                           \* line/plane intersection it computed and, when it repeats
                           \* the key event of the step before, the branch of that one
    steps                  \* number of commands and events so far

vars == <<rendering_mode, volume_layer, layer, viewer_layers, mouse_drag_callbacks,
          mouse_drag_callback, keymap, pointer, emitted, lastOp, steps>>

-----------------------------------------------------------------------------
(* Vectors *)

Dot(a, b) == a[1] * b[1] + a[2] * b[2] + a[3] * b[3]
VAdd(a, b) == [i \in Axes |-> a[i] + b[i]]
VSub(a, b) == [i \in Axes |-> a[i] - b[i]]
VScale(k, a) == [i \in Axes |-> k * a[i]]
Zero3 == <<0, 0, 0>>

SetMax(S) == CHOOSE x \in S : \A y \in S : y <= x
SetMin(S) == CHOOSE x \in S : \A y \in S : x <= y

\* the value of a line/plane intersection whose denominator is zero (inf/nan)
NonFinite == <<>>
IsFinite(p) == Len(p) = 3

-----------------------------------------------------------------------------
(* Geometry used by the two flows *)

\* layer._display_bounding_box(dims) and layer.extent.data: [0, shape] per axis
BoxMax(shape) == [i \in Axes |-> 2 * shape[i]]

\* layer.get_ray_intersections: the points where the line through `position`
\* along `view_direction` enters and leaves the box; hit = FALSE for (None, None)
get_ray_intersections(position, view_direction, shape) ==
    LET hi == BoxMax(shape)
        moving == {i \in Axes : view_direction[i] # 0}
        enter(i) == IF view_direction[i] > 0 THEN 0 - position[i]
                                             ELSE position[i] - hi[i]
        leave(i) == IF view_direction[i] > 0 THEN hi[i] - position[i]
                                             ELSE position[i]
        tNear == SetMax({enter(i) : i \in moving})
        tFar == SetMin({leave(i) : i \in moving})
        hit == /\ \A i \in Axes \ moving : 0 <= position[i] /\ position[i] <= hi[i]
               /\ tNear <= tFar
    IN  IF hit
        THEN [hit |-> TRUE,
              near |-> VAdd(position, VScale(tNear, view_direction)),
              far |-> VAdd(position, VScale(tFar, view_direction))]
        ELSE [hit |-> FALSE, near |-> Zero3, far |-> Zero3]

\* (variant: a line parallel to the plane is answered by the plane's position)
intersect_or_position(plane_position, plane_normal, line_position, line_direction) ==
    LET num == Dot(VSub(plane_position, line_position), plane_normal)
        den == Dot(line_direction, plane_normal)
    IN  IF den = 0
        THEN plane_position
        ELSE VAdd(line_position, VScale((num * den) \div (den * den), line_direction))

\* experimental_slicing_plane.intersect_with_line: line_position + t * line_direction
\* with t = dot(position - line_position, normal) / dot(line_direction, normal);
\* the quotient is exact for the axis-aligned normals the program produces
intersect_with_line(plane_position, plane_normal, line_position, line_direction) ==
    LET num == Dot(VSub(plane_position, line_position), plane_normal)
        den == Dot(line_direction, plane_normal)
    IN  IF den = 0
        THEN NonFinite
        ELSE VAdd(line_position, VScale((num * den) \div (den * den), line_direction))

\* point_in_bounding_box(point, layer.extent.data): per-axis inclusive containment
point_in_bounding_box(point, shape) ==
    /\ IsFinite(point)
    /\ \A i \in Axes : 0 <= point[i] /\ point[i] <= BoxMax(shape)[i]

\* point_in_layer_bounding_box(point, layer)
point_in_layer_bounding_box(point, shape) ==
    /\ IsFinite(point)
    /\ \A i \in Axes : 0 <= point[i] /\ point[i] <= BoxMax(shape)[i]

\* drag_data_to_projected_distance: the drag, projected onto the canvas (the
\* plane orthogonal to the view direction), then onto `vector`
drag_data_to_projected_distance(start_position, end_position, view_direction, vector) ==
    LET drag == VSub(end_position, start_position)
        along == Dot(view_direction, drag) \div Dot(view_direction, view_direction)
        drag_vector_canvas == VSub(drag, VScale(along, view_direction))
    IN  Dot(drag_vector_canvas, vector)

\* (variant: the updated position written back without clamping)
clamp_unclamped(point, shape) == point

\* clamp_point_to_bounding_box: np.clip(point, box[:, 0], box[:, 1] - 1)
clamp_point_to_bounding_box(point, shape) ==
    [i \in Axes |->
        LET top == BoxMax(shape)[i] - 2
        IN  IF point[i] < 0 THEN 0 ELSE IF point[i] > top THEN top ELSE point[i]]

-----------------------------------------------------------------------------
(* tomoslice.py *)

\* self._render_as_plane
render_as_plane(mode) == mode = "plane"

\* (variant: the default position by integer division, shape // 2)
add_volume_layer_floor(shape, mode) ==
    [shape |-> shape,
     enabled |-> render_as_plane(mode),
     position |-> [i \in Axes |-> 2 * (shape[i] \div 2)],
     normal |-> <<1, 0, 0>>,
     thickness |-> DefaultThickness,
     visible |-> TRUE,
     interactive |-> TRUE,
     sub_mode |-> "none",
     sub_thickness |-> 0,
     pc |-> "idle",
     original_plane_position |-> Zero3,
     start_position |-> Zero3]

\* the layer record add_volume_layer creates; connect_callbacks has not run yet.
\* sub_mode / sub_thickness: the value captured by the subscription on the
\* plane's enabled / thickness event ("none" / 0: not subscribed).
\* pc, original_plane_position, start_position: the drag generator of the
\* layer's callback, suspended at a yield ("dragging") or not running ("idle").
add_volume_layer(shape, mode) ==
    [shape |-> shape,
     enabled |-> render_as_plane(mode),
     position |-> [i \in Axes |-> shape[i]],
     normal |-> <<1, 0, 0>>,
     thickness |-> DefaultThickness,
     visible |-> TRUE,
     interactive |-> TRUE,
     sub_mode |-> "none",
     sub_thickness |-> 0,
     pc |-> "idle",
     original_plane_position |-> Zero3,
     start_position |-> Zero3]

\* viewer.bind_key(key, callback) for key in 'xyz', from the k-th key on: bind_key
\* raises ValueError on a key that is already bound, which ends connect_callbacks
RECURSIVE bind_keys(_, _, _)
bind_keys(km, id, k) ==
    IF k > Len(KeyOrder) THEN [keymap |-> km, raised |-> FALSE]
    ELSE IF km[KeyOrder[k]] # 0 THEN [keymap |-> km, raised |-> TRUE]
    ELSE bind_keys([km EXCEPT ![KeyOrder[k]] = id], id, k + 1)

\* viewer.keymap.pop(key.upper()) for key in 'xyz': KeyError on an unbound key
RECURSIVE pop_keys(_, _)
pop_keys(km, k) ==
    IF k > Len(KeyOrder) THEN [keymap |-> km, raised |-> FALSE]
    ELSE IF km[KeyOrder[k]] = 0 THEN [keymap |-> km, raised |-> TRUE]
    ELSE pop_keys([km EXCEPT ![KeyOrder[k]] = 0], k + 1)

\* list.remove(x): the list without its first x
RECURSIVE list_remove(_, _)
list_remove(s, x) ==
    IF s = <<>> THEN <<>>
    ELSE IF Head(s) = x THEN Tail(s)
    ELSE <<Head(s)>> \o list_remove(Tail(s), x)

InList(s, x) == \E i \in DOMAIN s : s[i] = x

\* the two subscriptions of connect_callbacks: each partial captures the value
\* of self.rendering_mode / self.plane_thickness when it is built
connect_plane_events(L, mode) ==
    [L EXCEPT !.sub_mode = mode, !.sub_thickness = L.thickness]

\* every command and event counts against the session's budget
Tick == steps < MaxSteps /\ steps' = steps + 1

\* open_tomogram: add_volume_layer, then connect_callbacks
open_tomogram(shape) ==
    /\ Tick
    /\ LET id == Len(layer) + 1
           created == add_volume_layer(shape, rendering_mode)
           bound == bind_keys(keymap, id, 1)
       IN  /\ layer' = Append(layer, IF bound.raised THEN created
                                     ELSE connect_plane_events(created, rendering_mode))
           /\ viewer_layers' = viewer_layers \cup {id}
           /\ volume_layer' = id
           /\ mouse_drag_callback' = id
           /\ mouse_drag_callbacks' = Append(mouse_drag_callbacks, id)
           /\ keymap' = bound.keymap
           /\ lastOp' = [op |-> "open", arg |-> "", position |-> <<>>, view |-> <<>>,
                         point |-> <<>>, previous |-> "none", target |-> id,
                         info |-> IF bound.raised THEN "raised" ELSE "ok"]
    /\ emitted' = <<>>
    /\ UNCHANGED <<rendering_mode, pointer>>

\* (variant: the layer is added and wired before the file's data is read; it
\* stays behind, without data, when the read raises)
open_tomogram_partial_on_error ==
    /\ Tick
    /\ LET id == Len(layer) + 1
           bound == bind_keys(keymap, id, 1)
       IN  /\ layer' = Append(layer, add_volume_layer(<<1, 1, 1>>, rendering_mode))
           /\ viewer_layers' = viewer_layers \cup {id}
           /\ volume_layer' = id
           /\ mouse_drag_callback' = id
           /\ mouse_drag_callbacks' = Append(mouse_drag_callbacks, id)
           /\ keymap' = bound.keymap
    /\ lastOp' = [op |-> "open_error", arg |-> "", position |-> <<>>, view |-> <<>>,
                  point |-> <<>>, previous |-> "none", target |-> 0, info |-> "raised"]
    /\ emitted' = <<>>
    /\ UNCHANGED <<rendering_mode, pointer>>

\* open_tomogram on a file that mrcfile.open cannot read: the exception leaves
\* open_tomogram at its first statement, before add_volume_layer
open_tomogram_load_error ==
    /\ Tick
    /\ lastOp' = [op |-> "open_error", arg |-> "", position |-> <<>>, view |-> <<>>,
                  point |-> <<>>, previous |-> "none", target |-> 0, info |-> "raised"]
    /\ emitted' = <<>>
    /\ UNCHANGED <<rendering_mode, volume_layer, layer, viewer_layers,
                   mouse_drag_callbacks, mouse_drag_callback, keymap, pointer>>

\* disconnect_callbacks: what it leaves of the drag callbacks and the keymap
disconnect_callbacks ==
    IF mouse_drag_callback = 0 \/ ~InList(mouse_drag_callbacks, mouse_drag_callback)
    THEN [callbacks |-> mouse_drag_callbacks, keymap |-> keymap, raised |-> TRUE]
    ELSE LET popped == pop_keys(keymap, 1)
         IN  [callbacks |-> list_remove(mouse_drag_callbacks, mouse_drag_callback),
              keymap |-> popped.keymap, raised |-> popped.raised]

\* close_tomogram: disconnect_callbacks, then viewer.layers.remove(self.volume_layer)
close_tomogram ==
    LET d == disconnect_callbacks
        removed == ~d.raised /\ volume_layer \in viewer_layers
    IN  /\ Tick
        /\ mouse_drag_callbacks' = d.callbacks
        /\ keymap' = d.keymap
        /\ viewer_layers' = IF removed THEN viewer_layers \ {volume_layer}
                                       ELSE viewer_layers
        /\ lastOp' = [op |-> "close", arg |-> "", position |-> <<>>, view |-> <<>>,
                      point |-> <<>>,
                      previous |-> "none", target |-> volume_layer,
                      info |-> IF removed THEN "ok" ELSE "raised"]
        /\ emitted' = <<>>
        /\ UNCHANGED <<rendering_mode, volume_layer, layer, mouse_drag_callback, pointer>>

\* what the subscription on plane.events.enabled sends when `enabled` is set to
\* `value`: the event fires on a change only, and the partial emits its captured mode
enabled_event(id, value) ==
    IF layer[id].enabled # value /\ layer[id].sub_mode # "none"
    THEN <<[signal |-> "rendering_mode_changed", args |-> <<layer[id].sub_mode>>,
            source |-> "plane_event", layer |-> id]>>
    ELSE <<>>

\* the same for plane.events.thickness
thickness_event(id, value) ==
    IF layer[id].thickness # value /\ layer[id].sub_thickness # 0
    THEN <<[signal |-> "plane_thickness_changed", args |-> <<layer[id].sub_thickness>>,
            source |-> "plane_event", layer |-> id]>>
    ELSE <<>>

\* rendering_mode.setter
set_rendering_mode(value) ==
    /\ Tick
    /\ rendering_mode' = value
    /\ IF volume_layer = 0
       THEN \* AttributeError on None, after the mode was stored
            /\ layer' = layer
            /\ emitted' = <<>>
            /\ lastOp' = [op |-> "set_mode", arg |-> "", position |-> <<>>, view |-> <<>>,
                          point |-> <<>>, previous |-> "none", target |-> 0,
                          info |-> "raised"]
       ELSE /\ layer' = [layer EXCEPT ![volume_layer].enabled = render_as_plane(value)]
            /\ emitted' = enabled_event(volume_layer, render_as_plane(value)) \o
                          <<[signal |-> "rendering_mode_changed", args |-> <<value>>,
                             source |-> "setter", layer |-> volume_layer]>>
            /\ lastOp' = [op |-> "set_mode", arg |-> "", position |-> <<>>, view |-> <<>>,
                          point |-> <<>>,
                          previous |-> "none", target |-> volume_layer, info |-> "ok"]
    /\ UNCHANGED <<volume_layer, viewer_layers, mouse_drag_callbacks,
                   mouse_drag_callback, keymap, pointer>>

\* plane_thickness.setter (with no volume ever opened it raises on None and
\* changes nothing)
set_plane_thickness(value) ==
    /\ Tick
    /\ volume_layer # 0
    /\ layer' = [layer EXCEPT ![volume_layer].thickness = value]
    /\ emitted' = thickness_event(volume_layer, value) \o
                  <<[signal |-> "plane_thickness_changed", args |-> <<>>,
                     source |-> "setter", layer |-> volume_layer]>>
    /\ lastOp' = [op |-> "set_thickness", arg |-> "", position |-> <<>>, view |-> <<>>,
                  point |-> <<>>,
                  previous |-> "none", target |-> volume_layer, info |-> "ok"]
    /\ UNCHANGED <<rendering_mode, volume_layer, viewer_layers, mouse_drag_callbacks,
                   mouse_drag_callback, keymap, pointer>>

\* the guard of the if_plane_enabled decorator: it reads self.volume_layer
\* when the callback is called
if_plane_enabled == layer[volume_layer].enabled

-----------------------------------------------------------------------------
(* plane_controls.py *)

\* (variant: without the check that the click was on the plane)
shift_accepts_any_hit(L, position, view_direction) ==
    /\ L.enabled /\ L.visible
    /\ get_ray_intersections(position, view_direction, L.shape).hit

\* shift_plane_along_normal up to its first yield: the three early exits
shift_accepts(L, position, view_direction) ==
    /\ L.enabled /\ L.visible
    /\ LET ray == get_ray_intersections(position, view_direction, L.shape)
       IN  /\ ray.hit
           /\ point_in_bounding_box(
                  intersect_with_line(L.position, L.normal, ray.near, view_direction),
                  L.shape)

shift_press(L, position, view_direction) ==
    IF shift_accepts(L, position, view_direction)
    THEN [L EXCEPT !.original_plane_position = L.position,
                   !.interactive = FALSE,
                   !.start_position = position,
                   !.pc = "dragging"]
    ELSE L

\* (variant: each move starts from the position the previous move left)
shift_move_incremental(L, position, view_direction) ==
    LET drag_distance == drag_data_to_projected_distance(
                             L.start_position, position, view_direction, L.normal)
        updated_position == VAdd(L.position, VScale(drag_distance, L.normal))
    IN  [L EXCEPT !.position = clamp_point_to_bounding_box(updated_position, L.shape)]

\* one turn of `while event.type == 'mouse_move'`
shift_move(L, position, view_direction) ==
    LET drag_distance == drag_data_to_projected_distance(
                             L.start_position, position, view_direction, L.normal)
        updated_position == VAdd(L.original_plane_position,
                                 VScale(drag_distance, L.normal))
    IN  [L EXCEPT !.position = clamp_point_to_bounding_box(updated_position, L.shape)]

\* (variant: the generator ends without re-enabling interactivity)
shift_keep_disabled(L) ==
    [L EXCEPT !.pc = "idle", !.original_plane_position = Zero3,
              !.start_position = Zero3]

\* the loop exit on an event that is not a move
shift_release(L) ==
    [L EXCEPT !.interactive = TRUE, !.pc = "idle",
              !.original_plane_position = Zero3, !.start_position = Zero3]

\* (variant: the screen-axis mapping x -> (1,0,0), z -> (0,0,1))
axis_to_normal_naive(axis) ==
    IF axis = "x" THEN <<1, 0, 0>> ELSE IF axis = "y" THEN <<0, 1, 0>> ELSE <<0, 0, 1>>

\* axis_to_normal of set_plane_normal_axis
axis_to_normal(axis) ==
    IF axis = "z" THEN <<1, 0, 0>> ELSE IF axis = "y" THEN <<0, 1, 0>> ELSE <<0, 0, 1>>

\* np.array(layer.data.shape) // 2
shape_center(shape) == [i \in Axes |-> 2 * (shape[i] \div 2)]

\* what intersect_with_line returned to set_plane_normal_axis (NonFinite also
\* when it was not called, the ray having missed the box)
snap_point(L, cursor, view_direction) ==
    LET ray == get_ray_intersections(cursor, view_direction, L.shape)
    IN  IF ray.hit
        THEN intersect_with_line(L.position, L.normal, ray.near, view_direction)
        ELSE NonFinite

\* the branch set_plane_normal_axis takes
snap_branch(L, cursor, view_direction) ==
    LET ray == get_ray_intersections(cursor, view_direction, L.shape)
    IN  IF ~ray.hit THEN "miss"
        ELSE IF ~IsFinite(intersect_with_line(L.position, L.normal, ray.near,
                                              view_direction))
             THEN "parallel"
        ELSE IF ~point_in_layer_bounding_box(
                     intersect_with_line(L.position, L.normal, ray.near, view_direction),
                     L.shape)
             THEN "outside"
             ELSE "intersection"

\* (variant: without the second check, an intersection outside the box is kept)
snap_position_no_fallback(L, cursor, view_direction) ==
    LET ray == get_ray_intersections(cursor, view_direction, L.shape)
        hit == intersect_with_line(L.position, L.normal, ray.near, view_direction)
    IN  IF ray.hit /\ IsFinite(hit) THEN hit ELSE shape_center(L.shape)

\* (variant: a finite intersection is clamped to the box instead of replaced)
snap_position_clamped(L, cursor, view_direction) ==
    LET ray == get_ray_intersections(cursor, view_direction, L.shape)
        hit == intersect_with_line(L.position, L.normal, ray.near, view_direction)
    IN  IF ray.hit /\ IsFinite(hit)
        THEN clamp_point_to_bounding_box(hit, L.shape)
        ELSE shape_center(L.shape)

\* new_plane_position of set_plane_normal_axis
snap_position(L, cursor, view_direction) ==
    LET ray == get_ray_intersections(cursor, view_direction, L.shape)
        new_plane_position ==
            IF ~ray.hit THEN shape_center(L.shape)
            ELSE intersect_with_line(L.position, L.normal, ray.near, view_direction)
    IN  IF ~point_in_layer_bounding_box(new_plane_position, L.shape)
        THEN shape_center(L.shape)
        ELSE new_plane_position

\* (variant: the plane is set up anew, with the thickness of plane_parameters)
set_plane_normal_axis_new_plane(L, axis, cursor, view_direction) ==
    [L EXCEPT !.position = snap_position(L, cursor, view_direction),
              !.normal = axis_to_normal(axis),
              !.thickness = DefaultThickness]

\* (variant: an intersection that is not inside the box rejects the command)
set_plane_normal_axis_rejecting(L, axis, cursor, view_direction) ==
    IF snap_branch(L, cursor, view_direction) \in {"parallel", "outside"}
    THEN L
    ELSE [L EXCEPT !.position = snap_position(L, cursor, view_direction),
                   !.normal = axis_to_normal(axis)]

\* set_plane_normal_axis: the two writes of its last lines
set_plane_normal_axis(L, axis, cursor, view_direction) ==
    [L EXCEPT !.position = snap_position(L, cursor, view_direction),
              !.normal = axis_to_normal(axis)]

-----------------------------------------------------------------------------
(* The viewer's events *)

\* mouse press: every registered drag callback is called and run to its first yield
mouse_press(position, view_direction) ==
    /\ Tick
    /\ pointer = "up"
    /\ pointer' = "down"
    /\ layer' = [id \in DOMAIN layer |->
                    IF InList(mouse_drag_callbacks, id) /\ if_plane_enabled
                    THEN shift_press(layer[id], position, view_direction)
                    ELSE layer[id]]
    /\ lastOp' = [op |-> "press", arg |-> "", position |-> position,
                  view |-> view_direction,
                  point |-> <<>>, previous |-> "none", target |-> 0,
                  info |-> IF \E id \in DOMAIN layer : layer'[id].pc = "dragging"
                           THEN "accepted" ELSE "ignored"]
    /\ emitted' = <<>>
    /\ UNCHANGED <<rendering_mode, volume_layer, viewer_layers, mouse_drag_callbacks,
                   mouse_drag_callback, keymap>>

\* mouse move with the button down: every suspended generator is resumed
mouse_move(position, view_direction) ==
    /\ Tick
    /\ pointer = "down"
    /\ layer' = [id \in DOMAIN layer |->
                    IF layer[id].pc = "dragging"
                    THEN shift_move(layer[id], position, view_direction)
                    ELSE layer[id]]
    /\ lastOp' = [op |-> "move", arg |-> "", position |-> position,
                  view |-> view_direction,
                  point |-> <<>>, previous |-> "none", target |-> 0,
                  info |-> IF \E id \in DOMAIN layer : layer[id].pc = "dragging"
                           THEN "accepted" ELSE "ignored"]
    /\ emitted' = <<>>
    /\ UNCHANGED <<rendering_mode, volume_layer, viewer_layers, mouse_drag_callbacks,
                   mouse_drag_callback, keymap, pointer>>

\* mouse release: every suspended generator is resumed a last time and dropped
mouse_release ==
    /\ Tick
    /\ pointer = "down"
    /\ pointer' = "up"
    /\ layer' = [id \in DOMAIN layer |->
                    IF layer[id].pc = "dragging"
                    THEN shift_release(layer[id])
                    ELSE layer[id]]
    /\ lastOp' = [op |-> "release", arg |-> "", position |-> <<>>, view |-> <<>>,
                  point |-> <<>>, previous |-> "none", target |-> 0,
                  info |-> IF \E id \in DOMAIN layer : layer[id].pc = "dragging"
                           THEN "accepted" ELSE "ignored"]
    /\ emitted' = <<>>
    /\ UNCHANGED <<rendering_mode, volume_layer, viewer_layers, mouse_drag_callbacks,
                   mouse_drag_callback, keymap>>

\* key x, y or z: the bound callback, behind the decorator's guard
key_press(key, cursor, view_direction) ==
    /\ Tick
    /\ keymap[key] # 0
    /\ IF if_plane_enabled
       THEN /\ layer' = [layer EXCEPT ![keymap[key]] =
                            set_plane_normal_axis(@, key, cursor, view_direction)]
            /\ lastOp' = [op |-> "key", arg |-> key, position |-> cursor,
                          view |-> view_direction,
                          point |-> snap_point(layer[keymap[key]], cursor, view_direction),
                          previous |-> IF /\ lastOp.op = "key"
                                          /\ lastOp.info # "guarded"
                                          /\ lastOp.arg = key
                                          /\ lastOp.position = cursor
                                          /\ lastOp.view = view_direction
                                          /\ lastOp.target = keymap[key]
                                       THEN lastOp.info ELSE "none",
                          target |-> keymap[key],
                          info |-> snap_branch(layer[keymap[key]], cursor, view_direction)]
       ELSE /\ layer' = layer
            /\ lastOp' = [op |-> "key", arg |-> key, position |-> cursor,
                          view |-> view_direction,
                          point |-> <<>>,
                          previous |-> "none", target |-> keymap[key], info |-> "guarded"]
    /\ emitted' = <<>>
    /\ UNCHANGED <<rendering_mode, volume_layer, viewer_layers, mouse_drag_callbacks,
                   mouse_drag_callback, keymap, pointer>>

\* the viewer's layer list toggles layer.visible
set_visible(id, value) ==
    /\ Tick
    /\ id \in viewer_layers
    /\ layer[id].visible # value
    /\ layer' = [layer EXCEPT ![id].visible = value]
    /\ lastOp' = [op |-> "visible", arg |-> "", position |-> <<>>, view |-> <<>>,
                  point |-> <<>>, previous |-> "none", target |-> id,
                  info |-> "ok"]
    /\ emitted' = <<>>
    /\ UNCHANGED <<rendering_mode, volume_layer, viewer_layers, mouse_drag_callbacks,
                   mouse_drag_callback, keymap, pointer>>

-----------------------------------------------------------------------------

\* TomoSlice.__init__ on a fresh viewer
Init ==
    /\ rendering_mode = "volume"
    /\ volume_layer = 0
    /\ layer = <<>>
    /\ viewer_layers = {}
    /\ mouse_drag_callbacks = <<>>
    /\ mouse_drag_callback = 0
    /\ keymap = [k \in Keys |-> 0]
    /\ pointer = "up"
    /\ emitted = <<>>
    /\ lastOp = [op |-> "init", arg |-> "", position |-> <<>>, view |-> <<>>,
                 point |-> <<>>, previous |-> "none", target |-> 0, info |-> "ok"]
    /\ steps = 0

Next ==
    \/ \E shape \in Shapes : open_tomogram(shape)
    \/ open_tomogram_load_error
    \/ close_tomogram
    \/ \E value \in RenderingMode : set_rendering_mode(value)
    \/ \E value \in Thicknesses : set_plane_thickness(value)
    \/ \E position \in Positions, view \in Views : mouse_press(position, view)
    \/ \E position \in Positions, view \in Views : mouse_move(position, view)
    \/ mouse_release
    \/ \E key \in Keys, cursor \in Positions, view \in Views : key_press(key, cursor, view)
    \/ \E id \in 1..MaxSteps, value \in BOOLEAN : set_visible(id, value)

Spec == Init /\ [][Next]_vars

-----------------------------------------------------------------------------
(* The claims *)

\* the volume's axis-aligned bounding box, [0, shape] on every axis
InsideBox(p, shape) ==
    /\ Len(p) = 3
    /\ \A i \in Axes : 0 <= p[i] /\ p[i] <= 2 * shape[i]

\* the axis -> normal mapping as the specification states it
ClaimedNormal(key) ==
    CASE key = "x" -> <<0, 0, 1>>
      [] key = "y" -> <<0, 1, 0>>
      [] key = "z" -> <<1, 0, 0>>

\* floor(shape / 2) componentwise, in half-voxels
FloorCenter(shape) == [i \in Axes |-> 2 * (shape[i] \div 2)]

\* C1: while a drag gesture is under way (after the accepted pointer-down and
\* after every pointer-move), the plane position lies inside the volume's
\* bounding box.
C1_DragKeepsPositionInBox ==
    \A id \in DOMAIN layer :
        layer[id].pc = "dragging" => InsideBox(layer[id].position, layer[id].shape)

\* a pointer-move whose unclamped target lies outside the box has been clamped
C1_Witness ==
    /\ lastOp.op = "move"
    /\ \E id \in DOMAIN layer, position \in Positions, view \in Views :
        LET L == layer[id]
            target == VAdd(L.original_plane_position,
                           VScale(drag_data_to_projected_distance(
                                      L.start_position, position, view, L.normal),
                                  L.normal))
        IN  /\ L.pc = "dragging"
            /\ ~InsideBox(target, L.shape)
            /\ L.position = clamp_point_to_bounding_box(target, L.shape)
            /\ L.position # L.original_plane_position

\* C2: a pointer-down or an axis key never changes the plane (position, normal,
\* thickness, enabled) or the interactivity of a layer whose plane is disabled.
C2_DisabledPlaneIsNeverMutated ==
    [][\A id \in DOMAIN layer :
          (~layer[id].enabled /\ lastOp'.op \in {"press", "key"}) =>
              /\ layer'[id].position = layer[id].position
              /\ layer'[id].normal = layer[id].normal
              /\ layer'[id].thickness = layer[id].thickness
              /\ layer'[id].enabled = layer[id].enabled
              /\ layer'[id].interactive = layer[id].interactive]_vars

\* C3: an axis key that passes the guard sets the normal by x -> (0,0,1),
\* y -> (0,1,0), z -> (1,0,0), and when the cursor ray hit the box and met the
\* plane inside the box, the position is exactly that intersection point.
C3_AxisSnapNormalAndIntersection ==
    (lastOp.op = "key" /\ lastOp.info # "guarded") =>
        LET L == layer[lastOp.target]
        IN  /\ L.normal = ClaimedNormal(lastOp.arg)
            /\ (lastOp.info # "miss" /\ InsideBox(lastOp.point, L.shape)) =>
                   L.position = lastOp.point

\* key x landed on an intersection point that is neither centre of the volume
C3_Witness ==
    /\ lastOp.op = "key" /\ lastOp.arg = "x" /\ lastOp.info = "intersection"
    /\ layer[lastOp.target].normal = <<0, 0, 1>>
    /\ layer[lastOp.target].position # FloorCenter(layer[lastOp.target].shape)
    /\ layer[lastOp.target].position # layer[lastOp.target].shape

\* C4: after an axis key that passes the guard, with a cursor ray that missed
\* the box or that met the plane outside the box, the plane is at
\* floor(shape / 2) and has the requested normal.
C4_AxisSnapFallsBackToCenter ==
    (lastOp.op = "key" /\ lastOp.info # "guarded") =>
        LET L == layer[lastOp.target]
        IN  (lastOp.info = "miss" \/ ~InsideBox(lastOp.point, L.shape)) =>
                /\ L.position = FloorCenter(L.shape)
                /\ L.normal = ClaimedNormal(lastOp.arg)

\* key z, the ray met the plane outside a box with an odd axis: floor centre
C4_Witness ==
    /\ lastOp.op = "key" /\ lastOp.arg = "z" /\ lastOp.info = "outside"
    /\ layer[lastOp.target].position = FloorCenter(layer[lastOp.target].shape)
    /\ layer[lastOp.target].position # layer[lastOp.target].shape
    /\ layer[lastOp.target].normal = <<1, 0, 0>>

\* C5: right after open, the new plane is at shape / 2, with normal (1,0,0),
\* thickness 5 and enabled = (rendering mode is PLANE).
C5_OpenCreatesDefaultPlane ==
    lastOp.op = "open" =>
        LET L == layer[lastOp.target]
        IN  /\ \A i \in Axes : L.position[i] = L.shape[i]
            /\ L.normal = <<1, 0, 0>>
            /\ L.thickness = 5
            /\ L.enabled = (rendering_mode = "plane")

\* a volume with an odd axis was opened in PLANE mode
C5_Witness ==
    /\ lastOp.op = "open"
    /\ rendering_mode = "plane"
    /\ layer[lastOp.target].enabled
    /\ layer[lastOp.target].shape = <<3, 2, 2>>
    /\ layer[lastOp.target].position = <<3, 2, 2>>

\* C6: no notification from a plane subscription reaches the observers for a
\* volume that has been closed.
C6_NoPlaneEventAfterClose ==
    \A k \in DOMAIN emitted :
        emitted[k].source = "plane_event" => emitted[k].layer \in viewer_layers

\* C7: a layer's pointer interactivity is false exactly while its drag gesture
\* is in DRAGGING.
C7_InteractiveIffNotDragging ==
    \A id \in DOMAIN layer :
        layer[id].interactive = (layer[id].pc # "dragging")

\* a gesture that moved the plane has ended: back to IDLE, interactivity restored
C7_Witness ==
    /\ lastOp.op = "release" /\ lastOp.info = "accepted"
    /\ \E id \in DOMAIN layer :
        /\ layer[id].pc = "idle"
        /\ layer[id].interactive
        /\ layer[id].position # layer[id].shape
        /\ layer[id].normal = <<1, 0, 0>>

\* C8: the plane of every displayed volume is enabled iff the mode is PLANE.
C8_EnabledIffPlaneMode ==
    \A id \in viewer_layers :
        layer[id].enabled = (rendering_mode = "plane")

\* C9: every mode-changed notification carries the mode now in force.
C9_ModePayloadIsCurrent ==
    \A k \in DOMAIN emitted :
        emitted[k].signal = "rendering_mode_changed" =>
            emitted[k].args = <<rendering_mode>>

\* C10: every thickness-changed notification carries the thickness just written.
C10_ThicknessPayloadIsWritten ==
    \A k \in DOMAIN emitted :
        emitted[k].signal = "plane_thickness_changed" =>
            emitted[k].args = <<layer[emitted[k].layer].thickness>>

\* C11: a file-open failure leaves no partial volume state: no layer is added
\* to the viewer, no drag callback, key binding or plane subscription is
\* registered, and the volume reference and the rendering mode are unchanged.
C11_LoadErrorLeavesNoPartialState ==
    [][lastOp'.op = "open_error" =>
          /\ lastOp'.info = "raised"
          /\ UNCHANGED <<layer, viewer_layers, mouse_drag_callbacks,
                         mouse_drag_callback, keymap, volume_layer,
                         rendering_mode>>]_vars

\* a read failed while a volume was open in PLANE mode, and one with no volume
C11_Witness ==
    /\ lastOp.op = "open_error"
    /\ volume_layer \in viewer_layers
    /\ rendering_mode = "plane"
    /\ layer[volume_layer].sub_mode # "none"

\* C12: the disabled-plane guard covers the steps after drag-start too: no
\* pointer-move or pointer-up of a gesture changes the position of a plane
\* that is disabled, so a move that follows a switch to VOLUME mode leaves
\* the plane where it was.
C12_DisabledPlaneNotMovedByDrag ==
    [][\A id \in DOMAIN layer :
          (lastOp'.op \in {"move", "release"} /\ ~layer[id].enabled) =>
              layer'[id].position = layer[id].position]_vars

\* the three conditions of the drag entry guard, for a pointer-down at
\* `position` looking along `view`
EntryGuard(L, position, view) ==
    /\ L.enabled /\ L.visible
    /\ get_ray_intersections(position, view, L.shape).hit
    /\ InsideBox(intersect_with_line(
                     L.position, L.normal,
                     get_ray_intersections(position, view, L.shape).near, view),
                 L.shape)

\* C13: a pointer-down takes a layer's gesture from IDLE to DRAGGING only if
\* the plane is enabled and the layer visible, the pointer ray hits the box and
\* the ray meets the plane inside the box; otherwise the gesture stays IDLE and
\* the pointer-down changes nothing of the layer, and the pointer-moves of an
\* ignored gesture do not move the plane.
C13_DragEntryGuard ==
    [][\A id \in DOMAIN layer :
          /\ lastOp'.op = "press" =>
                 /\ layer[id].pc = "idle"
                 /\ layer'[id].pc = "dragging" =>
                        EntryGuard(layer[id], lastOp'.position, lastOp'.view)
                 /\ ~EntryGuard(layer[id], lastOp'.position, lastOp'.view) =>
                        layer'[id] = layer[id]
          /\ (lastOp'.op = "move" /\ layer[id].pc = "idle") =>
                 layer'[id] = layer[id]]_vars

\* a pointer-down on an enabled, visible plane whose ray hit the box but met
\* the plane outside of it, or ran parallel to it, was ignored
C13_Witness ==
    /\ lastOp.op = "press" /\ lastOp.info = "ignored"
    /\ \E id \in DOMAIN layer :
          /\ layer[id].enabled /\ layer[id].visible
          /\ get_ray_intersections(lastOp.position, lastOp.view, layer[id].shape).hit
          /\ ~EntryGuard(layer[id], lastOp.position, lastOp.view)
          /\ layer[id].pc = "idle" /\ layer[id].interactive

\* clamp(originalPlanePosition + dragDistance * currentNormal, box) for a move
\* to `position` seen along `view`, from the snapshots and the normal of L
MoveTarget(L, position, view) ==
    clamp_point_to_bounding_box(
        VAdd(L.original_plane_position,
             VScale(drag_data_to_projected_distance(L.start_position, position,
                                                    view, L.normal),
                    L.normal)),
        L.shape)

\* C14: the snapshots of a gesture are the plane position and the pointer
\* position of its pointer-down and stay as they are until the gesture ends,
\* and every pointer-move while DRAGGING writes
\* clamp(originalPlanePosition + dragDistance * currentNormal, box), with the
\* drag distance from the snapshots, the position and view direction of this
\* move and the normal the plane has now.
C14_MoveWritesFromSnapshots ==
    [][\A id \in DOMAIN layer :
          /\ (lastOp'.op = "press" /\ layer'[id].pc = "dragging") =>
                 /\ layer'[id].original_plane_position = layer[id].position
                 /\ layer'[id].start_position = lastOp'.position
          /\ (layer[id].pc = "dragging" /\ layer'[id].pc = "dragging") =>
                 /\ layer'[id].original_plane_position =
                        layer[id].original_plane_position
                 /\ layer'[id].start_position = layer[id].start_position
          /\ (lastOp'.op = "move" /\ layer[id].pc = "dragging") =>
                 layer'[id].position =
                     MoveTarget(layer[id], lastOp'.position, lastOp'.view)]_vars

\* a move has shifted the plane off its snapshot, to a place from which the
\* same move, applied to the position it left, would lead elsewhere
C14_Witness ==
    /\ lastOp.op = "move"
    /\ \E id \in DOMAIN layer :
          LET L == layer[id]
          IN  /\ L.pc = "dragging"
              /\ L.position # L.original_plane_position
              /\ L.position = MoveTarget(L, lastOp.position, lastOp.view)
              /\ L.position #
                     MoveTarget([L EXCEPT !.original_plane_position = L.position],
                                lastOp.position, lastOp.view)

\* C15: right after every open and after every axis key that passes the guard,
\* the plane position lies inside the volume's bounding box, whatever the shape
\* (axes of length 1, odd lengths), the cursor ray and the plane before; the
\* key always performs its update: it sets the requested normal and puts the
\* plane at the point it computed or, in its place, at the volume's centre.
C15_PositionInBoxAfterSnapAndOpen ==
    /\ lastOp.op = "open" =>
           InsideBox(layer[lastOp.target].position, layer[lastOp.target].shape)
    /\ (lastOp.op = "key" /\ lastOp.info # "guarded") =>
           LET L == layer[lastOp.target]
           IN  /\ InsideBox(L.position, L.shape)
               /\ L.position \in {lastOp.point, FloorCenter(L.shape)}
               /\ L.normal = ClaimedNormal(lastOp.arg)

\* in a volume with an axis of length 1, the cursor ray met the plane outside
\* the box or not at all: the centre replaced the point, the normal was changed
C15_Witness ==
    /\ lastOp.op = "key" /\ lastOp.info \in {"outside", "parallel"}
    /\ LET L == layer[lastOp.target]
       IN  /\ L.shape = <<2, 2, 1>>
           /\ ~InsideBox(lastOp.point, L.shape)
           /\ L.position = <<2, 2, 0>>
           /\ L.normal # <<1, 0, 0>>

\* C16: between an accepted pointer-down and the event that ends the gesture,
\* no axis key changes the position or the normal of the plane being dragged.
C16_NoAxisSnapDuringDrag ==
    [][\A id \in DOMAIN layer :
          (lastOp'.op = "key" /\ layer[id].pc = "dragging") =>
              /\ layer'[id].position = layer[id].position
              /\ layer'[id].normal = layer[id].normal]_vars

\* C17: at most one volume layer is displayed and at most one drag callback is
\* registered, bound to the volume now open, so that at most one drag gesture
\* is active at a time.
C17_AtMostOneVolume ==
    /\ Cardinality(viewer_layers) <= 1
    /\ Len(mouse_drag_callbacks) <= 1
    /\ \A i \in DOMAIN mouse_drag_callbacks :
           mouse_drag_callbacks[i] = volume_layer /\ volume_layer \in viewer_layers
    /\ Cardinality({id \in DOMAIN layer : layer[id].pc = "dragging"}) <= 1

\* C18: a view line parallel to the plane is not an error: a pointer-down with
\* such a ray leaves the layer as it is (IDLE, plane and interactivity
\* unchanged), and an axis key with such a ray puts the plane at
\* floor(shape / 2) and sets the requested normal.
C18_ParallelRayIsAMiss ==
    [][\A id \in DOMAIN layer :
          (lastOp'.op \in {"press", "key"}
              /\ Dot(lastOp'.view, layer[id].normal) = 0) =>
              /\ lastOp'.op = "press" => layer'[id] = layer[id]
              /\ (lastOp'.op = "key" /\ lastOp'.info # "guarded"
                      /\ lastOp'.target = id) =>
                     /\ layer'[id].position = FloorCenter(layer[id].shape)
                     /\ layer'[id].normal = ClaimedNormal(lastOp'.arg)
                     /\ layer'[id].pc = layer[id].pc]_vars

\* a key whose ray entered the box but ran parallel to the plane took the
\* plane from where it was to the floor centre and turned its normal
C18_Witness ==
    /\ lastOp.op = "key" /\ lastOp.info = "parallel"
    /\ LET L == layer[lastOp.target]
       IN  /\ L.shape = <<3, 2, 2>>
           /\ L.position = <<2, 2, 2>>
           /\ L.normal = ClaimedNormal(lastOp.arg)
           /\ Dot(lastOp.view, L.normal) # 0

\* C19: the steps of a drag gesture (pointer-down, moves, pointer-up) change
\* nothing but plane positions and layer interactivity, an axis key changes
\* nothing but the plane's position and normal, and neither sends a
\* mode-changed or a thickness-changed notification.
C19_FrameOfTheTwoFlows ==
    [][lastOp'.op \in {"press", "move", "release", "key"} =>
          /\ rendering_mode' = rendering_mode
          /\ emitted' = <<>>
          /\ DOMAIN layer' = DOMAIN layer
          /\ \A id \in DOMAIN layer :
                 /\ layer'[id].thickness = layer[id].thickness
                 /\ layer'[id].enabled = layer[id].enabled
                 /\ layer'[id].visible = layer[id].visible
                 /\ lastOp'.op = "key" =>
                        layer'[id].interactive = layer[id].interactive
                 /\ lastOp'.op # "key" => layer'[id].normal = layer[id].normal]_vars

\* an axis key has turned and moved a plane of thickness 7 in the middle of a
\* drag: thickness, enabled and the suspended interactivity are as they were
C19_Witness ==
    /\ lastOp.op = "key" /\ lastOp.info = "intersection"
    /\ LET L == layer[lastOp.target]
       IN  /\ L.thickness = 7
           /\ L.enabled
           /\ L.normal # <<1, 0, 0>>
           /\ L.position # L.shape
           /\ L.pc = "dragging" /\ ~L.interactive

\* C20: an axis key that repeats the key event of the step before (same axis,
\* cursor position, view direction and volume) leaves the plane's position and
\* normal as the first one left them, also when the view direction is
\* orthogonal to the normal the first one set.
C20_AxisSnapIdempotent ==
    [][(lastOp'.op = "key" /\ lastOp'.previous # "none") =>
          /\ layer'[lastOp'.target].position = layer[lastOp'.target].position
          /\ layer'[lastOp'.target].normal = layer[lastOp'.target].normal]_vars

\* C20, amended: the repeated axis key leaves the normal as the first one set
\* it, and leaves the position as the first one left it when the cursor ray
\* misses the box, or when the first one put the plane at its line/plane
\* intersection and the view direction is not orthogonal to the normal it set.
C20_AxisSnapIdempotentOnIntersection ==
    [][(lastOp'.op = "key" /\ lastOp'.previous # "none") =>
          /\ layer'[lastOp'.target].normal = layer[lastOp'.target].normal
          /\ (\/ lastOp'.previous = "miss"
              \/ /\ lastOp'.previous = "intersection"
                 /\ Dot(lastOp'.view, ClaimedNormal(lastOp'.arg)) # 0) =>
                 layer'[lastOp'.target].position =
                     layer[lastOp'.target].position]_vars

\* the second of two equal axis keys met the turned plane at the point where
\* the first one had put it, away from both centres of the volume
C20_Witness ==
    /\ lastOp.op = "key" /\ lastOp.previous = "intersection"
    /\ lastOp.info = "intersection"
    /\ LET L == layer[lastOp.target]
       IN  /\ Dot(lastOp.view, L.normal) # 0
           /\ L.position = lastOp.point
           /\ L.position # FloorCenter(L.shape)
           /\ L.position # L.shape

====
